---- MODULE Spec2Model ----
(***************************************************************************)
(* A model of the reversible library: the execution engine               *)
(* (reversible/core.py execute), the composition engine                   *)
(* (reversible/generator.py gen, _GeneratorAction) and the three ways a    *)
(* composing procedure is handed to _GeneratorAction: directly             *)
(* (reversible/generator.py), through _map_generator                       *)
(* (reversible/tornado/generator.py) and through a generator expression    *)
(* (reversible/tornado.py).                                                *)
(*                                                                         *)
(* One run is one call execute(Top).  Python's call stack is the variable  *)
(* stack; an action object is named by its path: Top is <<>> and the i-th  *)
(* item a composite p takes from its generator is Append(p, i).  What a    *)
(* user-written forwards, backwards or procedure does is the environment:  *)
(* it is chosen when the library calls it.  Values are opaque to the       *)
(* library, so a value is named by who produced it.  Every error is an     *)
(* instance of Exception.  Under Spec every forwards and backwards returns *)
(* immediately.                                                            *)
(*                                                                         *)
(* BridgeSpec is the Tornado bridge (reversible/tornado/core.py and        *)
(* generator.py, and the older reversible/tornado.py): several calls of    *)
(* its execute on one IOLoop, each running core.execute in a greenlet of   *)
(* its own, with forwards and backwards that may return a Future.  The     *)
(* variable wrap tells which of the two files a run uses: "map" is the     *)
(* package reversible/tornado/, "genexpr" is reversible/tornado.py.        *)
(*                                                                         *)
(* NoneSpec is execute over procedures that may yield None, SweepSpec is   *)
(* execute followed by further calls of the composite's backwards(), and   *)
(* BuilderSpec is one ActionBuilder (reversible/core.py action) with the   *)
(* actions it builds.  NestedSpec is execute over composites that yield    *)
(* class instances and further composites, with room for more of them.    *)
(***************************************************************************)
EXTENDS Integers, Sequences, FiniteSets, TLC

\* Bounds of the model.
MaxActions == 3   \* at most this many sub-actions are yielded in one run
MaxDepth == 1     \* a composite may be yielded by a composite this deep at most

VARIABLES
    wrap,       \* which gen built the composites of this run
    obj,        \* the action objects constructed so far, by path
    executed,   \* _GeneratorAction.executed of each object (a deque)
    generator,  \* _GeneratorAction.generator: items taken, and how it ended
    stack,      \* the call stack below execute: frames of forwards/backwards
    ret,        \* what the call that just finished returned or raised
    pc,         \* where execute is
    exc,        \* the exception execute's outer except block holds
    result,     \* what execute returned or raised
    calls,      \* every forwards()/backwards() call made so far, in order
    returned,   \* what each object's forwards() and backwards() gave
    recv,       \* what each procedure received at its yield points, in order
    handled,    \* sub-actions whose failure the procedure intercepted
    log,        \* the records written through log.exception
    current,    \* greenlet.getcurrent(): 0 is the IOLoop's greenlet
    loop,       \* the callbacks io_loop.add_callback has queued, in order
    units,      \* where the greenlet of each execute call is
    chains,     \* the action each execute call was given
    futures,    \* the Future each greenlet is waiting for, or waited for last
    output,     \* the Future each execute call returned
    trace,      \* what happened in each greenlet, in order
    received,   \* what each chain's procedure received at its yield points
    direct,     \* a bridged call made from the IOLoop's greenlet itself
    swallowed,  \* the errors of callbacks that the IOLoop logged
    registered, \* ActionBuilder._backwards: 0 is None
    actions,    \* the SimpleActions that ActionBuilder.__call__ returned
    contexts,   \* the context objects made so far, and what was written
    raised      \* how the last call on the ActionBuilder ended

\* The state of core.execute run without the bridge.
engine == <<obj, executed, generator, stack, ret, pc, exc, result, calls,
            returned, recv, handled, log>>

\* The state of the bridge.
tornado == <<current, loop, units, chains, futures, output, trace, received,
             direct, swallowed>>

\* The state of an ActionBuilder and of the actions it built.
builder == <<registered, actions, contexts, raised>>

vars == <<wrap, engine, tornado, builder>>

Top == <<>>

\* Values and errors, named by their origin.
None == [kind |-> "value", src |-> <<>>, op |-> "None"]
Tok(p, op) == [kind |-> "value", src |-> p, op |-> op]
Err(p, op) == [kind |-> "error", src |-> p, op |-> op]
NoRet == [kind |-> "none", src |-> <<>>, op |-> ""]

Wraps == {"plain", "map", "genexpr"}

\* The objects a caller can construct.  An object built by a gen-decorated
\* function remembers in "said" the value its function returned or raised
\* through Return; no operation reads it.
Leaf == [cls |-> "Leaf", via |-> "class", val |-> None, said |-> None]

GeneratorAction ==
    [cls |-> "_GeneratorAction", via |-> "generator", val |-> None,
     said |-> None]

\* SimpleAction(forwards, backwards, context) as gen builds it: forwards
\* gives val (ctx.value or the value closed over), backwards gives None.
SimpleAction(via, v) ==
    [cls |-> "SimpleAction", via |-> via, val |-> v, said |-> None]

\* A new_function that drops the plain value of a function that is no
\* generator.
new_function_dropped(behaviour, v) ==
    IF behaviour = "Return" THEN SimpleAction("Return", v)
    ELSE IF behaviour = "generator" THEN GeneratorAction
    ELSE SimpleAction("value", None)

\* gen's new_function: the decorated function raises Return(v), returns a
\* generator, or returns the plain value v.
new_function(behaviour, v) ==
    IF behaviour = "Return" THEN SimpleAction("Return", v)
    ELSE IF behaviour = "generator" THEN GeneratorAction
    ELSE SimpleAction("value", v)

\* The objects a gen-decorated function can build at path p.  The function
\* of the executed action returns or raises through Return either None or a
\* value of its own; the function of a sub-action, a value of its own.
Built(p) ==
    {[new_function(b, v) EXCEPT !.said = v] :
        b \in {"Return", "value"},
        v \in {Tok(p, "function")} \cup (IF p = Top THEN {None} ELSE {})}
    \cup {new_function("generator", None)}

\* ---------------------------------------------------------------- procedures

Signal(sig, out, child) == [sig |-> sig, out |-> out, child |-> child]

\* An error thrown at a generator expression never reaches the procedure.
Lost == [kind |-> "lost", src |-> <<>>, op |-> ""]

\* The path of the next item the generator of p hands out.
NextChild(p) == Append(p, generator[p].n + 1)

\* The item the procedure of p is suspended on.
LastChild(p) == Append(p, generator[p].n)

\* How a procedure can end without an error: by running off its end, or by
\* raising Return(v) with a value of its own; the procedure of the executed
\* action also by "return v" (StopIteration(v)) and by Return(None).
Endings(p) ==
    {Signal("StopIteration", None, Leaf),
     Signal("Return", Tok(p, "procedure"), Leaf)}
    \cup (IF p = Top
          THEN {Signal("StopIteration", Tok(p, "procedure"), Leaf),
                Signal("Return", None, Leaf)}
          ELSE {})

\* What a user's procedure may do when it is started (input NoRet) or resumed
\* at its yield point with a value or an error: yield one more action, end,
\* raise an error of its own, or let the injected error through.  A procedure
\* that is not resumed does nothing.
Procedure(p, input) ==
    IF input = Lost THEN {Signal("idle", NoRet, Leaf)}
    ELSE
    {Signal("yield", NoRet, a) :
        a \in IF Cardinality(DOMAIN obj) > MaxActions THEN {}
              ELSE {Leaf} \cup (IF Len(p) < MaxDepth THEN Built(NextChild(p))
                                ELSE {})}
    \cup Endings(p)
    \cup {Signal("raise", Err(p, "procedure"), Leaf)}
    \cup (IF input.kind = "error" THEN {Signal("raise", input, Leaf)} ELSE {})

\* What the procedure of a chain built by w receives when _GeneratorAction
\* calls next(self.generator) (input NoRet), self.generator.send(input) or
\* self.generator.throw(input).
\*   plain:   self.generator is the procedure.
\*   map:     _map_generator sends results and throws errors on.
\*   genexpr: the generator expression resumes the procedure with next(), and
\*            an error thrown into it is raised at its own yield.
Delivered(w, input) ==
    IF w = "genexpr"
    THEN (IF input.kind = "value" THEN None
          ELSE IF input.kind = "error" THEN Lost
          ELSE input)
    ELSE input

\* A wrapper that throws the error on and then raises it again itself.
RelayedRethrow(w, input, s) ==
    IF s.sig = "idle" \/ input.kind = "error" THEN Signal("raise", input, Leaf)
    ELSE IF w = "genexpr" /\ s.sig = "StopIteration"
    THEN Signal("StopIteration", None, Leaf)
    ELSE s

\* What self.generator answers to _GeneratorAction for what the procedure
\* did.  A generator expression ends with a bare StopIteration when the
\* procedure ends, and raises the error thrown into it.  A StopIteration that
\* the procedure's end raises inside _map_generator leaves _map_generator as
\* it is: the generator semantics of the interpreters the package was
\* written for (Python 2.7 to 3.6), before PEP 479 made it a RuntimeError.
Relayed(w, input, s) ==
    IF s.sig = "idle" THEN Signal("raise", input, Leaf)
    ELSE IF w = "genexpr" /\ s.sig = "StopIteration"
    THEN Signal("StopIteration", None, Leaf)
    ELSE s

\* An except clause that names StopIteration alone.
ForwardsOutcomeNoReturn(s) ==
    IF s.sig = "Return" THEN Err(s.out.src, "Return") ELSE s.out

\* How _GeneratorAction.forwards ends when self.generator stops handing out
\* actions: StopIteration and Return give their value, an error propagates.
ForwardsOutcome(s) == s.out

\* A forwards that does not record the action it is about to call.
RecordedNot(q, c) == q

\* deque.appendleft(action)
RecordedLeft(q, c) == <<c>> \o q

\* self.executed.append(action)
Recorded(q, c) == Append(q, c)

\* A sweep that reads the last action and leaves it in the deque.
DequePeek(q) == [item |-> q[Len(q)], rest |-> q]

\* deque.popleft()
DequePopLeft(q) == [item |-> q[1], rest |-> SubSeq(q, 2, Len(q))]

\* deque.pop()
DequePop(q) == [item |-> q[Len(q)], rest |-> SubSeq(q, 1, Len(q) - 1)]

\* A sweep that swallows the failure of a backwards().
SweepStopsNever(r) == FALSE

\* self.executed.pop().backwards() raising ends _GeneratorAction.backwards.
SweepStops(r) == r.kind = "error"

\* An execute that rolls back whatever forwards() did.
NeedsRollbackAlways(r) == TRUE

\* execute's "except Exception" around action.forwards().
NeedsRollback(r) == r.kind = "error"

\* An execute that re-raises the first error whatever the rollback did.
ExecuteResultFirst(fwd, bwd) == fwd

\* An execute that swallows the error once the rollback succeeded.
ExecuteResultSwallow(fwd, bwd) == IF bwd.kind = "error" THEN bwd ELSE None

\* What execute raises after the rollback: the error of backwards() if it
\* raised, otherwise the error of forwards().
ExecuteResult(fwd, bwd) == IF bwd.kind = "error" THEN bwd ELSE fwd

\* A log.exception that writes nothing.
LoggedNothing(q, msg, e) == q

\* log.exception(msg, action) inside an except block: the record carries the
\* exception being handled.
Logged(q, msg, e) == Append(q, [msg |-> msg, exc |-> e])

\* ------------------------------------------------------------------- frames

Frame(a, op) == [act |-> a, op |-> op, st |-> "enter"]

TopFrame == stack[Len(stack)]

Pop == SubSeq(stack, 1, Len(stack) - 1)

Call(a, op) == [op |-> op, act |-> a]

Running(cls, op) ==
    /\ stack # <<>>
    /\ obj[TopFrame.act].cls = cls
    /\ TopFrame.op = op

NoGen == [n |-> 0, ended |-> "no", carried |-> NoRet]

NotCalled == [forwards |-> NoRet, backwards |-> NoRet]

\* A run in which the bridge is not used.
NoBridge ==
    /\ current = 0
    /\ loop = <<>>
    /\ units = <<>>
    /\ chains = <<>>
    /\ futures = <<>>
    /\ output = <<>>
    /\ trace = <<>>
    /\ received = <<>>
    /\ direct = NoRet
    /\ swallowed = <<>>

\* A run without an ActionBuilder.
NoBuilder ==
    /\ registered = 0
    /\ actions = <<>>
    /\ contexts = <<>>
    /\ raised = NoRet

Init ==
    /\ NoBridge
    /\ NoBuilder
    /\ wrap \in Wraps
    /\ obj \in {(Top :> a) : a \in {Leaf} \cup Built(Top)}
    /\ executed = (Top :> <<>>)
    /\ generator = (Top :> NoGen)
    /\ stack = <<>>
    /\ ret = NoRet
    /\ pc = "start"
    /\ exc = NoRet
    /\ result = NoRet
    /\ calls = <<>>
    /\ returned = (Top :> NotCalled)
    /\ recv = (Top :> <<>>)
    /\ handled = {}
    /\ log = <<>>

\* The call on top of the stack finishes with outcome r.
Finish(r) ==
    /\ stack' = Pop
    /\ ret' = r
    /\ returned' = [returned EXCEPT ![TopFrame.act][TopFrame.op] = r]

\* ------------------------------------------------------------------ actions

\* execute: return action.forwards()
ExecuteForwards ==
    /\ pc = "start"
    /\ pc' = "forwards"
    /\ stack' = <<Frame(Top, "forwards")>>
    /\ calls' = Append(calls, Call(Top, "forwards"))
    /\ UNCHANGED <<wrap, obj, executed, generator, ret, exc, result, returned,
                   recv, handled, log>>
    /\ UNCHANGED <<tornado, builder>>

\* execute, once action.forwards() is over: return its value, or log the
\* failure and call action.backwards().
ExecuteRollback ==
    /\ pc = "forwards" /\ stack = <<>> /\ ret # NoRet
    /\ IF ~NeedsRollback(ret)
       THEN /\ result' = ret
            /\ pc' = "done"
            /\ UNCHANGED <<stack, exc, calls, log>>
       ELSE /\ log' = Logged(log, "failed to execute", ret)
            /\ exc' = ret
            /\ pc' = "backwards"
            /\ stack' = <<Frame(Top, "backwards")>>
            /\ calls' = Append(calls, Call(Top, "backwards"))
            /\ UNCHANGED result
    /\ ret' = NoRet
    /\ UNCHANGED <<wrap, obj, executed, generator, returned, recv, handled>>
    /\ UNCHANGED <<tornado, builder>>

\* execute, once action.backwards() is over: raise the rollback's error after
\* logging it, or re-raise the error of forwards.
ExecuteRaise ==
    /\ pc = "backwards" /\ stack = <<>> /\ ret # NoRet
    /\ log' = IF ret.kind = "error"
              THEN Logged(log, "failed to roll back", ret)
              ELSE log
    /\ result' = ExecuteResult(exc, ret)
    /\ pc' = "done"
    /\ ret' = NoRet
    /\ UNCHANGED <<wrap, obj, executed, generator, stack, exc, calls, returned,
                   recv, handled>>
    /\ UNCHANGED <<tornado, builder>>

\* forwards() of an action written as a class: it returns a value or raises.
LeafForwards ==
    /\ Running("Leaf", "forwards")
    /\ \E r \in {Tok(TopFrame.act, "forwards"), Err(TopFrame.act, "forwards")} :
          Finish(r)
    /\ UNCHANGED <<wrap, obj, executed, generator, pc, exc, result, calls, recv,
                   handled, log>>
    /\ UNCHANGED <<tornado, builder>>

\* backwards() of an action written as a class: it returns or raises.
LeafBackwards ==
    /\ Running("Leaf", "backwards")
    /\ \E r \in {None, Err(TopFrame.act, "backwards")} : Finish(r)
    /\ UNCHANGED <<wrap, obj, executed, generator, pc, exc, result, calls, recv,
                   handled, log>>
    /\ UNCHANGED <<tornado, builder>>

\* SimpleAction.forwards with the closures gen gives it: the value.
SimpleForwards ==
    /\ Running("SimpleAction", "forwards")
    /\ Finish(obj[TopFrame.act].val)
    /\ UNCHANGED <<wrap, obj, executed, generator, pc, exc, result, calls, recv,
                   handled, log>>
    /\ UNCHANGED <<tornado, builder>>

\* SimpleAction.backwards with the closures gen gives it: lambda _: None.
SimpleBackwards ==
    /\ Running("SimpleAction", "backwards")
    /\ Finish(None)
    /\ UNCHANGED <<wrap, obj, executed, generator, pc, exc, result, calls, recv,
                   handled, log>>
    /\ UNCHANGED <<tornado, builder>>

\* _GeneratorAction.forwards, from its entry or from the return of the
\* sub-action's forwards() up to the next call of a sub-action's forwards() or
\* to its own return; does is what the procedure may do when it is resumed.
GeneratorForwardsOf(does) ==
    /\ Running("_GeneratorAction", "forwards")
    /\ (TopFrame.st = "enter") = (ret = NoRet)
    /\ LET p == TopFrame.act
           c == NextChild(p)
           got == Delivered(wrap, ret)
           heard == IF got.kind \in {"value", "error"}
                    THEN [recv EXCEPT ![p] = Append(@, got)]
                    ELSE recv
       IN \E s \in does :
            LET t == Relayed(wrap, ret, s) IN
            /\ handled' = IF got.kind = "error" /\ s.out # got
                          THEN handled \cup {LastChild(p)}
                          ELSE handled
            /\ IF t.sig = "yield"
               THEN /\ obj' = obj @@ (c :> t.child)
                    /\ generator' = [generator EXCEPT ![p].n = @ + 1]
                                        @@ (c :> NoGen)
                    /\ executed' = [executed EXCEPT ![p] = Recorded(@, c)]
                                       @@ (c :> <<>>)
                    /\ recv' = heard @@ (c :> <<>>)
                    /\ returned' = returned @@ (c :> NotCalled)
                    /\ stack' = Append([stack EXCEPT ![Len(stack)].st = "wait"],
                                       Frame(c, "forwards"))
                    /\ calls' = Append(calls, Call(c, "forwards"))
                    /\ ret' = NoRet
               ELSE /\ generator' = [generator EXCEPT ![p].ended = s.sig,
                                                      ![p].carried = s.out]
                    /\ recv' = heard
                    /\ Finish(ForwardsOutcome(t))
                    /\ UNCHANGED <<obj, executed, calls>>
    /\ UNCHANGED <<wrap, pc, exc, result, log>>
    /\ UNCHANGED <<tornado, builder>>

\* _GeneratorAction.forwards over a procedure that yields actions only.
GeneratorForwards ==
    GeneratorForwardsOf(Procedure(TopFrame.act, Delivered(wrap, ret)))

\* _GeneratorAction.backwards, from its entry or from the return of a
\* sub-action's backwards() up to the next pop or to its own return.
GeneratorBackwards ==
    /\ Running("_GeneratorAction", "backwards")
    /\ (TopFrame.st = "enter") = (ret = NoRet)
    /\ LET p == TopFrame.act IN
       IF SweepStops(ret)
       THEN /\ Finish(ret)
            /\ UNCHANGED <<executed, calls>>
       ELSE IF executed[p] # <<>>
       THEN /\ executed' = [executed EXCEPT ![p] = DequePop(@).rest]
            /\ stack' = Append([stack EXCEPT ![Len(stack)].st = "wait"],
                               Frame(DequePop(executed[p]).item, "backwards"))
            /\ calls' = Append(calls,
                               Call(DequePop(executed[p]).item, "backwards"))
            /\ ret' = NoRet
            /\ UNCHANGED returned
       ELSE /\ Finish(None)
            /\ UNCHANGED <<executed, calls>>
    /\ UNCHANGED <<wrap, obj, generator, pc, exc, result, recv, handled, log>>
    /\ UNCHANGED <<tornado, builder>>

Next ==
    \/ ExecuteForwards
    \/ ExecuteRollback
    \/ ExecuteRaise
    \/ LeafForwards
    \/ LeafBackwards
    \/ SimpleForwards
    \/ SimpleBackwards
    \/ GeneratorForwards
    \/ GeneratorBackwards

Spec == Init /\ [][Next]_vars

\* ------------------------------------------------------------------ null steps

MaxNone == 1      \* at most this many times a procedure yields None in one run

\* None, yielded where an action is expected.
NoneStep == [cls |-> "NoneType", via |-> "None", val |-> None, said |-> None]

\* The error of an attribute lookup on the None at path c.
AttributeError(c) == Err(c, "AttributeError")

\* A call on a yielded None that does nothing and returns None.
NoneCallSkipped(c) == None

\* action.forwards() or self.executed.pop().backwards() where the action is
\* None: the lookup of the attribute raises.
NoneCall(c) == AttributeError(c)

\* A procedure that may also yield None.
ProcedureOrNone(p, input) ==
    Procedure(p, input)
    \cup (IF \/ input = Lost
             \/ Cardinality(DOMAIN obj) > MaxActions
             \/ Cardinality({c \in DOMAIN obj : obj[c] = NoneStep}) >= MaxNone
          THEN {}
          ELSE {Signal("yield", NoRet, NoneStep)})

\* _GeneratorAction.forwards over a procedure that may yield None.
GeneratorForwardsNone ==
    GeneratorForwardsOf(ProcedureOrNone(TopFrame.act, Delivered(wrap, ret)))

\* action.forwards() on a yielded None, inside _GeneratorAction.forwards.
NoneForwards ==
    /\ Running("NoneType", "forwards")
    /\ Finish(NoneCall(TopFrame.act))
    /\ UNCHANGED <<wrap, obj, executed, generator, pc, exc, result, calls, recv,
                   handled, log>>
    /\ UNCHANGED <<tornado, builder>>

\* self.executed.pop().backwards() on a yielded None.
NoneBackwards ==
    /\ Running("NoneType", "backwards")
    /\ Finish(NoneCall(TopFrame.act))
    /\ UNCHANGED <<wrap, obj, executed, generator, pc, exc, result, calls, recv,
                   handled, log>>
    /\ UNCHANGED <<tornado, builder>>

NoneNext ==
    \/ ExecuteForwards
    \/ ExecuteRollback
    \/ ExecuteRaise
    \/ LeafForwards
    \/ LeafBackwards
    \/ SimpleForwards
    \/ SimpleBackwards
    \/ GeneratorForwardsNone
    \/ GeneratorBackwards
    \/ NoneForwards
    \/ NoneBackwards

\* The executed action is a composite built by reversible/generator.py.
NoneInit ==
    /\ Init
    /\ wrap = "plain"
    /\ obj[Top].cls = "_GeneratorAction"

\* execute(action) where procedures may yield None.
NoneSpec == NoneInit /\ [][NoneNext]_vars

\* ------------------------------------------------------------ repeated sweeps

MaxSweeps == 2    \* at most this many calls of the executed action's backwards()

\* The program calls action.backwards() itself once execute is over, whether
\* execute rolled the action back or not.
BackwardsAgain ==
    /\ pc = "done"
    /\ Cardinality({i \in DOMAIN calls : calls[i] = Call(Top, "backwards")})
          < MaxSweeps
    /\ pc' = "again"
    /\ stack' = <<Frame(Top, "backwards")>>
    /\ calls' = Append(calls, Call(Top, "backwards"))
    /\ ret' = NoRet
    /\ UNCHANGED <<wrap, obj, executed, generator, exc, result, returned, recv,
                   handled, log>>
    /\ UNCHANGED <<tornado, builder>>

\* That call returns or raises to the program.
BackwardsOver ==
    /\ pc = "again" /\ stack = <<>> /\ ret # NoRet
    /\ pc' = "done"
    /\ ret' = NoRet
    /\ UNCHANGED <<wrap, obj, executed, generator, stack, exc, result, calls,
                   returned, recv, handled, log>>
    /\ UNCHANGED <<tornado, builder>>

SweepNext ==
    \/ Next
    \/ BackwardsAgain
    \/ BackwardsOver

\* The executed action is a composite built by reversible/generator.py.
SweepInit ==
    /\ Init
    /\ wrap = "plain"
    /\ obj[Top].cls = "_GeneratorAction"

\* execute(action) followed by calls of action.backwards().
SweepSpec == SweepInit /\ [][SweepNext]_vars

\* ---------------------------------------------------------- nested composites

MaxNested == 4    \* at most this many sub-actions, of all composites, in one run

\* A procedure that yields instances of action classes and the composites of
\* other gen-decorated procedures; it ends and fails as any procedure does.
ProcedureNested(p, input) ==
    IF input = Lost THEN {Signal("idle", NoRet, Leaf)}
    ELSE
    {Signal("yield", NoRet, a) :
        a \in IF Cardinality(DOMAIN obj) > MaxNested THEN {}
              ELSE {Leaf} \cup (IF Len(p) < MaxDepth THEN {GeneratorAction}
                                ELSE {})}
    \cup Endings(p)
    \cup {Signal("raise", Err(p, "procedure"), Leaf)}
    \cup (IF input.kind = "error" THEN {Signal("raise", input, Leaf)} ELSE {})

\* _GeneratorAction.forwards over such a procedure.
GeneratorForwardsNested ==
    GeneratorForwardsOf(ProcedureNested(TopFrame.act, Delivered(wrap, ret)))

NestedNext ==
    \/ ExecuteForwards
    \/ ExecuteRollback
    \/ ExecuteRaise
    \/ LeafForwards
    \/ LeafBackwards
    \/ GeneratorForwardsNested
    \/ GeneratorBackwards

\* The executed action is a composite built by reversible/generator.py or
\* by reversible/tornado/generator.py.
NestedInit ==
    /\ Init
    /\ wrap \in {"plain", "map"}
    /\ obj[Top] = GeneratorAction

\* execute over composites of class instances and of composites.
NestedSpec == NestedInit /\ [][NestedNext]_vars

\* ---------------------------------------------------------------- the bridge

\* Bounds of the bridge.
MaxChains == 2    \* at most this many calls of the bridge's execute in one run
MaxSteps == 4     \* at most this many actions are called in one run
MaxHandles == 2   \* at most this many Futures are returned in one run

Chains == 1..MaxChains

\* The action chain c executes (tgt 0), or the tgt-th item its procedure
\* yielded.
Path(c, tgt) == IF tgt = 0 THEN <<c>> ELSE <<c, tgt>>

\* A tornado Future that a forwards() or backwards() returns.
Handle(p, op) == [kind |-> "handle", src |-> p, op |-> op]

\* tornado.concurrent.is_future taking everything for a Future.
is_future_always(res) == TRUE

\* tornado.concurrent.is_future taking nothing for a Future.
is_future_never(res) == FALSE

\* tornado.concurrent.is_future(result)
is_future(res) == res.kind = "handle"

\* The parent of the IOLoop's greenlet: None.
NoParent == 0 - 1

\* A greenlet whose parent is itself: it waits without giving control away.
parent_self(g) == g

\* A greenlet tree in which the IOLoop's greenlet has a parent to switch to.
parent_loop(g) == 0

\* greenlet.parent: the greenlet of a chain is made by execute, which the
\* IOLoop's greenlet calls.
parent(g) == IF g = 0 THEN NoParent ELSE 0

\* The assertion of _maybe_async, raised in greenlet g.
AssertionError == [kind |-> "error", src |-> <<0>>, op |-> "AssertionError"]

\* greenlet.throw given one tuple where it takes a class or an instance.
TypeError == [kind |-> "error", src |-> <<0>>, op |-> "TypeError"]

\* _Lift(future)
Lift == [cls |-> "_Lift", via |-> "lift", val |-> None, said |-> None]

\* The class of the object the bridge's gen builds from a generator.
TornadoGeneratorAction(w) ==
    IF w = "map" THEN "_TornadoGeneratorAction" ELSE "_GeneratorAction"

\* The actions of this run so far: those given to execute or called
\* directly, and those yielded.
RECURSIVE Steps(_)
Steps(c) ==
    IF c = 0 THEN 0
    ELSE (IF units[c].at = "idle" THEN 0 ELSE 1) + chains[c].n + Steps(c - 1)

\* The Futures returned so far in this run.
RECURSIVE Handles(_)
Handles(c) == IF c = 0 THEN 0 ELSE futures[c].made + Handles(c - 1)

\* What the forwards() or backwards() of an action of class cls at path p can
\* return or raise when it is called: a class instance returns, raises, or
\* returns a Future; _Lift.forwards returns the Future it holds and
\* _Lift.backwards returns None.
Inner(cls, p, op) ==
    IF cls = "_Lift"
    THEN (IF op = "forwards" THEN {Handle(p, op)} ELSE {None})
    ELSE {IF op = "forwards" THEN Tok(p, op) ELSE None, Err(p, op)}
         \cup (IF Handles(MaxChains) < MaxHandles THEN {Handle(p, op)}
               ELSE {})

\* What the Future h can be resolved with.
Resolutions(h) ==
    {IF h.op = "forwards" THEN Tok(h.src, h.op) ELSE None, Err(h.src, h.op)}

\* A greenlet: where it is (at), in the forwards() or backwards() (op) of
\* which object (tgt), what the bridged call returned or raised (r), the
\* error core.execute holds (exc); and of the bridged call it is in or was
\* in last: what the inner call returned or raised (inner), whether new_fn
\* switched to the parent (susp), how many resumptions were queued (sched).
NoUnit == [at |-> "idle", tgt |-> 0, op |-> "", r |-> NoRet, exc |-> NoRet,
           inner |-> NoRet, susp |-> FALSE, sched |-> 0]

\* The action of a chain: its class, the items taken from its procedure,
\* how the procedure ended, the classes of the items, the deque executed;
\* what its own forwards() and backwards() came to in the end; and what the
\* forwards() of the sub-action its procedure yielded last came to.
NoChain == [cls |-> "", n |-> 0, ended |-> "no", subs |-> <<>>,
            executed |-> <<>>, forwards |-> NoRet, backwards |-> NoRet,
            gave |-> NoRet]

\* The Future of a greenlet's bridged call: the Future itself (h), whether it
\* is pending or done, what it holds, whether it keeps the callback; and how
\* many Futures the greenlet has been given so far.
NoFuture == [h |-> NoRet, st |-> "none", out |-> NoRet, cb |-> FALSE,
             made |-> 0]

NoOutput == [n |-> 0, out |-> NoRet]

\* One entry of io_loop's queue of callbacks.
Queued(fn, c, arg) == [fn |-> fn, unit |-> c, arg |-> arg]

\* A callback that resumes the greenlet that runs when the Future completes.
callback_late(c, out) ==
    Queued(IF out.kind = "error" THEN "throw" ELSE "switch",
           (c % MaxChains) + 1, out)

\* A callback that queues current.switch whatever the Future holds.
callback_switch(c, out) == Queued("switch", c, out)

\* _maybe_async's callback(future), called with the completed Future: it
\* queues current.throw with the Future's error, or current.switch with its
\* result, for the greenlet that made the bridged call.
callback(c, out) ==
    Queued(IF out.kind = "error" THEN "throw" ELSE "switch", c, out)

\* A resumption that hands over None whatever the Future held.
ResumedEmpty(w, item) == [ok |-> TRUE, r |-> None]

\* A resumption that fails in the callback whatever the Future held.
ResumedNever(w, item) == [ok |-> FALSE, r |-> TypeError]

\* What the queued current.switch(value) or current.throw(...) does when the
\* IOLoop calls it.  reversible/tornado/core.py unpacks future.exc_info()
\* into throw's three arguments; reversible/tornado.py passes the tuple as
\* one argument, which greenlet.throw refuses with a TypeError raised in the
\* callback itself, and the greenlet is not resumed.
Resumed(w, item) ==
    IF item.fn = "throw" /\ w = "genexpr"
    THEN [ok |-> FALSE, r |-> TypeError]
    ELSE [ok |-> TRUE, r |-> item.arg]

Event(tgt, op, ev) == [tgt |-> tgt, op |-> op, ev |-> ev]

\* The greenlet u once the caller of its bridged call goes on.
Fresh(u) == [u EXCEPT !.r = NoRet, !.inner = NoRet, !.susp = FALSE,
                      !.sched = 0]

\* The Future f once the bridged call that waited for it is over.
Spent(f) == [NoFuture EXCEPT !.made = f.made]

\* What the inner call of the bridged call of chain c came to: what it
\* returned or raised, or what the Future it returned was resolved with.
Settled(c) ==
    IF units[c].inner.kind = "handle" THEN futures[c].out ELSE units[c].inner

\* The class of the object whose forwards() or backwards() chain c is at.
Target(c) ==
    IF units[c].tgt = 0 THEN chains[c].cls
    ELSE chains[c].subs[units[c].tgt]

GeneratorClasses == {"_TornadoGeneratorAction", "_GeneratorAction"}

\* What the procedure of chain c may do when it is started or resumed: yield
\* a class instance or a lift(future), end by running off its end or with a
\* Return, or let the injected error through.  lift and tornado.gen.Return
\* belong to reversible/tornado/generator.py; a procedure of
\* reversible/tornado.py raises the Return of reversible/generator.py.
ChainProcedure(c, input) ==
    IF input = Lost THEN {Signal("idle", NoRet, Leaf)}
    ELSE
    {Signal("yield", NoRet, a) :
        a \in IF Steps(MaxChains) >= MaxSteps THEN {}
              ELSE {Leaf} \cup (IF /\ wrap = "map"
                                   /\ Handles(MaxChains) < MaxHandles
                                THEN {Lift} ELSE {})}
    \cup {Signal("StopIteration", None, Leaf),
          Signal(IF wrap = "map" THEN "gen.Return" ELSE "Return",
                 Tok(<<c>>, "procedure"), Leaf)}
    \cup (IF input.kind = "error" THEN {Signal("raise", input, Leaf)} ELSE {})

\* _TornadoGeneratorAction.forwards: what _GeneratorAction.forwards gives,
\* and the value of a tornado.gen.Return that leaves it.
TornadoForwards(t) == IF t.sig = "gen.Return" THEN t.out ELSE ForwardsOutcome(t)

\* A run in which core.execute is not called directly.
NoEngine ==
    /\ obj = <<>>
    /\ executed = <<>>
    /\ generator = <<>>
    /\ stack = <<>>
    /\ ret = NoRet
    /\ pc = "none"
    /\ exc = NoRet
    /\ result = NoRet
    /\ calls = <<>>
    /\ returned = <<>>
    /\ recv = <<>>
    /\ handled = {}
    /\ log = <<>>

BridgeInit ==
    /\ NoEngine
    /\ NoBuilder
    /\ wrap \in {"map", "genexpr"}
    /\ current = 0
    /\ loop = <<>>
    /\ units = [c \in Chains |-> NoUnit]
    /\ chains = [c \in Chains |-> NoChain]
    /\ futures = [c \in Chains |-> NoFuture]
    /\ output = [c \in Chains |-> NoOutput]
    /\ trace = [c \in Chains |-> <<>>]
    /\ received = [c \in Chains |-> NoRet]
    /\ direct = NoRet
    /\ swallowed = <<>>

\* The bridge's execute(action): a new Future is the output, and the switch
\* into a new greenlet that runs call() is queued on the IOLoop.  The calls of
\* one run are numbered in the order they are made.
TornadoExecute ==
    /\ current = 0
    /\ Steps(MaxChains) < MaxSteps
    /\ \E c \in Chains :
        /\ units[c].at = "idle"
        /\ \A d \in 1..(c - 1) : units[d].at # "idle"
        /\ \E cls \in {"Leaf", TornadoGeneratorAction(wrap)} :
              chains' = [chains EXCEPT ![c].cls = cls]
        /\ units' = [units EXCEPT ![c].at = "queued"]
        /\ loop' = Append(loop, Queued("start", c, NoRet))
    /\ UNCHANGED <<current, futures, output, trace, received, direct,
                   swallowed>>
    /\ UNCHANGED <<wrap, engine, builder>>

\* The IOLoop runs greenlet(call).switch: call() runs core.execute up to
\* action.forwards() of the _TornadoAction around the action.
LoopStart ==
    /\ current = 0
    /\ loop # <<>>
    /\ Head(loop).fn = "start"
    /\ LET c == Head(loop).unit IN
        /\ current' = c
        /\ units' = [units EXCEPT ![c].at = "call", ![c].op = "forwards"]
    /\ loop' = Tail(loop)
    /\ UNCHANGED <<chains, futures, output, trace, received, direct, swallowed>>
    /\ UNCHANGED <<wrap, engine, builder>>

\* _maybe_async's new_fn around the forwards() or backwards() of a class
\* instance or of a _Lift, called in the greenlet of a chain: the inner call
\* is made; what is no Future is returned or raised as it is; otherwise the
\* callback is registered (through the IOLoop in reversible/tornado/core.py,
\* on the Future itself in reversible/tornado.py, where a completed Future
\* calls it at once) and the greenlet switches to its parent.  A Future may
\* be completed already when it is returned.
new_fn ==
    \E c \in Chains :
    /\ current = c
    /\ units[c].at = "call"
    /\ Target(c) \in {"Leaf", "_Lift"}
    /\ parent(c) # NoParent
    /\ LET u == units[c] IN
       \E res \in Inner(Target(c), Path(c, u.tgt), u.op) :
       \E done \in IF res.kind = "handle" THEN {NoRet} \cup Resolutions(res)
                   ELSE {NoRet} :
          LET now == done # NoRet
              settled == IF res.kind = "handle" THEN done ELSE res
              f == IF res.kind # "handle"
                   THEN [NoFuture EXCEPT !.made = futures[c].made]
                   ELSE [h |-> res,
                         st |-> IF now THEN "done" ELSE "pending",
                         out |-> done,
                         cb |-> FALSE,
                         made |-> futures[c].made + 1]
          IN
          /\ IF ~is_future(res)
             THEN /\ units' = [units EXCEPT ![c].at = "back", ![c].r = res,
                                            ![c].inner = res,
                                            ![c].susp = FALSE,
                                            ![c].sched = 0]
                  /\ futures' = [futures EXCEPT ![c] = f]
                  /\ trace' = [trace EXCEPT ![c] = @ \o
                                  <<Event(u.tgt, u.op, "call"),
                                    Event(u.tgt, u.op, "back")>>]
                  /\ UNCHANGED <<current, loop>>
             ELSE LET told == now /\ wrap = "genexpr" IN
                  /\ futures' = [futures EXCEPT ![c] =
                                    [f EXCEPT !.cb = ~now /\ wrap = "genexpr"]]
                  /\ loop' = IF wrap = "map"
                             THEN Append(loop,
                                         Queued("add_done_callback", c, NoRet))
                             ELSE IF now THEN Append(loop, callback(c, done))
                             ELSE loop
                  /\ current' = parent(c)
                  /\ units' = [units EXCEPT ![c].at = "wait",
                                            ![c].r = NoRet,
                                            ![c].inner = res,
                                            ![c].susp = TRUE,
                                            ![c].sched = IF told THEN 1 ELSE 0]
                  /\ trace' = [trace EXCEPT ![c] =
                                  Append(@, Event(u.tgt, u.op, "call"))]
          /\ chains' = IF u.tgt = 0 /\ settled # NoRet
                       THEN [chains EXCEPT ![c][u.op] = settled]
                       ELSE chains
    /\ UNCHANGED <<output, received, direct, swallowed>>
    /\ UNCHANGED <<wrap, engine, builder>>

\* The IOLoop runs result.add_done_callback(callback): a completed Future
\* calls the callback at once, a pending one keeps it.
LoopAddDoneCallback ==
    /\ current = 0
    /\ loop # <<>>
    /\ Head(loop).fn = "add_done_callback"
    /\ LET c == Head(loop).unit IN
       IF futures[c].st = "done"
       THEN /\ loop' = Append(Tail(loop), callback(c, futures[c].out))
            /\ units' = [units EXCEPT ![c].sched = @ + 1]
            /\ UNCHANGED futures
       ELSE /\ loop' = Tail(loop)
            /\ futures' = [futures EXCEPT ![c].cb = TRUE]
            /\ UNCHANGED units
    /\ UNCHANGED <<current, chains, output, trace, received, direct, swallowed>>
    /\ UNCHANGED <<wrap, engine, builder>>

\* A pending Future is resolved, with a result or with an error, by whoever
\* made it; it calls the callback it keeps.
Resolve ==
    /\ current = 0
    /\ \E c \in Chains :
        /\ futures[c].st = "pending"
        /\ \E out \in Resolutions(futures[c].h) :
            /\ futures' = [futures EXCEPT ![c].st = "done", ![c].out = out,
                                          ![c].cb = FALSE]
            /\ loop' = IF futures[c].cb THEN Append(loop, callback(c, out))
                       ELSE loop
            /\ units' = IF futures[c].cb
                        THEN [units EXCEPT ![c].sched = @ + 1]
                        ELSE units
            /\ chains' = IF futures[c].h.src = <<c>>
                         THEN [chains EXCEPT ![c][futures[c].h.op] = out]
                         ELSE chains
    /\ UNCHANGED <<current, output, trace, received, direct, swallowed>>
    /\ UNCHANGED <<wrap, engine, builder>>

\* The IOLoop runs the queued current.switch(value) or current.throw(...):
\* the greenlet goes on from current.parent.switch() in new_fn, which returns
\* the value or raises the error.  An error raised by the callback itself is
\* logged by the IOLoop.
LoopResume ==
    /\ current = 0
    /\ loop # <<>>
    /\ Head(loop).fn \in {"switch", "throw"}
    /\ LET c == Head(loop).unit
           u == units[c]
           got == Resumed(wrap, Head(loop))
       IN IF got.ok
          THEN /\ current' = c
               /\ units' = [units EXCEPT ![c].at = "back", ![c].r = got.r]
               /\ trace' = [trace EXCEPT ![c] =
                               Append(@, Event(u.tgt, u.op, "back"))]
               /\ UNCHANGED swallowed
          ELSE /\ swallowed' = Append(swallowed, got.r)
               /\ UNCHANGED <<current, units, trace>>
    /\ loop' = Tail(loop)
    /\ UNCHANGED <<chains, futures, output, received, direct>>
    /\ UNCHANGED <<wrap, engine, builder>>

\* _GeneratorAction.forwards of a chain built by the bridge's gen (inside
\* _TornadoGeneratorAction.forwards in reversible/tornado/generator.py), from
\* its entry or from the return of a sub-action's bridged forwards() up to
\* the next bridged call or to its own return.
ChainForwards ==
    \E c \in Chains :
    /\ current = c
    /\ chains[c].cls \in GeneratorClasses
    /\ units[c].op = "forwards"
    /\ \/ units[c].at = "call" /\ units[c].tgt = 0
       \/ units[c].at = "back" /\ units[c].tgt > 0
    /\ LET u == units[c]
           input == IF u.at = "call" THEN NoRet ELSE u.r
           got == Delivered(wrap, input)
           n == chains[c].n + 1
           began == IF u.at = "call"
                    THEN <<Event(0, "forwards", "call")>>
                    ELSE <<>>
       IN \E s \in ChainProcedure(c, got) :
            LET t == Relayed(wrap, input, s) IN
            /\ received' = IF got.kind \in {"value", "error"}
                           THEN [received EXCEPT ![c] = got]
                           ELSE received
            /\ IF t.sig = "yield"
               THEN /\ chains' = [chains EXCEPT
                                     ![c].n = n,
                                     ![c].subs = Append(@, t.child.cls),
                                     ![c].executed = Recorded(@, n),
                                     ![c].gave = Settled(c)]
                    /\ units' = [units EXCEPT
                                    ![c] = [Fresh(u) EXCEPT !.at = "call",
                                                            !.tgt = n]]
                    /\ trace' = [trace EXCEPT ![c] = @ \o began]
               ELSE /\ chains' = [chains EXCEPT
                                     ![c].ended = s.sig,
                                     ![c].forwards = TornadoForwards(t),
                                     ![c].gave = Settled(c)]
                    /\ units' = [units EXCEPT
                                    ![c] = [Fresh(u) EXCEPT
                                               !.at = "back",
                                               !.tgt = 0,
                                               !.r = TornadoForwards(t),
                                               !.inner = TornadoForwards(t)]]
                    /\ trace' = [trace EXCEPT ![c] = @ \o began \o
                                    <<Event(0, "forwards", "back")>>]
            /\ futures' = [futures EXCEPT ![c] = Spent(@)]
    /\ UNCHANGED <<current, loop, output, direct, swallowed>>
    /\ UNCHANGED <<wrap, engine, builder>>

\* _GeneratorAction.backwards of a chain built by the bridge's gen, from its
\* entry or from the return of a sub-action's bridged backwards() up to the
\* next pop or to its own return.
ChainBackwards ==
    \E c \in Chains :
    /\ current = c
    /\ chains[c].cls \in GeneratorClasses
    /\ units[c].op = "backwards"
    /\ \/ units[c].at = "call" /\ units[c].tgt = 0
       \/ units[c].at = "back" /\ units[c].tgt > 0
    /\ LET u == units[c]
           last == IF u.at = "call" THEN NoRet ELSE u.r
           began == IF u.at = "call"
                    THEN <<Event(0, "backwards", "call")>>
                    ELSE <<>>
           over == IF SweepStops(last) THEN last ELSE None
       IN IF ~SweepStops(last) /\ chains[c].executed # <<>>
          THEN /\ chains' = [chains EXCEPT
                                ![c].executed = DequePop(@).rest]
               /\ units' = [units EXCEPT ![c] =
                     [Fresh(u) EXCEPT
                         !.at = "call",
                         !.tgt = DequePop(chains[c].executed).item]]
               /\ trace' = [trace EXCEPT ![c] = @ \o began]
          ELSE /\ units' = [units EXCEPT ![c] =
                     [Fresh(u) EXCEPT !.at = "back", !.tgt = 0, !.r = over,
                                      !.inner = over]]
               /\ trace' = [trace EXCEPT ![c] = @ \o began \o
                               <<Event(0, "backwards", "back")>>]
               /\ chains' = [chains EXCEPT ![c].backwards = over]
    /\ futures' = [futures EXCEPT ![c] = Spent(@)]
    /\ UNCHANGED <<current, loop, output, received, direct, swallowed>>
    /\ UNCHANGED <<wrap, engine, builder>>

\* call(), once action.forwards() is over in core.execute: the value goes to
\* output.set_result and the greenlet ends, which gives control to its
\* parent; or core.execute calls action.backwards().
CallRollback ==
    \E c \in Chains :
    /\ current = c
    /\ units[c].at = "back" /\ units[c].tgt = 0 /\ units[c].op = "forwards"
    /\ IF ~NeedsRollback(units[c].r)
       THEN /\ output' = [output EXCEPT ![c] =
                             [n |-> @.n + 1, out |-> units[c].r]]
            /\ units' = [units EXCEPT ![c] = [NoUnit EXCEPT !.at = "done"]]
            /\ current' = parent(c)
       ELSE /\ units' = [units EXCEPT ![c] =
                  [Fresh(units[c]) EXCEPT !.at = "call", !.op = "backwards",
                                          !.exc = units[c].r]]
            /\ UNCHANGED <<output, current>>
    /\ futures' = [futures EXCEPT ![c] = Spent(@)]
    /\ UNCHANGED <<loop, chains, trace, received, direct, swallowed>>
    /\ UNCHANGED <<wrap, engine, builder>>

\* call(), once action.backwards() is over in core.execute: the error that
\* core.execute raises goes to output.set_exc_info and the greenlet ends.
CallRaise ==
    \E c \in Chains :
    /\ current = c
    /\ units[c].at = "back" /\ units[c].tgt = 0 /\ units[c].op = "backwards"
    /\ output' = [output EXCEPT ![c] =
                     [n |-> @.n + 1,
                      out |-> ExecuteResult(units[c].exc, units[c].r)]]
    /\ units' = [units EXCEPT ![c] = [NoUnit EXCEPT !.at = "done"]]
    /\ current' = parent(c)
    /\ futures' = [futures EXCEPT ![c] = Spent(@)]
    /\ UNCHANGED <<loop, chains, trace, received, direct, swallowed>>
    /\ UNCHANGED <<wrap, engine, builder>>

\* _maybe_async's new_fn called in the IOLoop's own greenlet, around the
\* forwards() or backwards() of a class instance: the program makes this call
\* where it could call execute.  reversible/tornado.py asserts that the
\* greenlet has a parent before the inner call; reversible/tornado/core.py
\* makes the inner call first and asserts only when it returned a Future.
\* The unit records whether the inner call was made and what new_fn gave.
DirectCall ==
    /\ current = 0
    /\ Steps(MaxChains) < MaxSteps
    /\ \E c \in Chains :
        /\ units[c].at = "idle"
        /\ \A d \in 1..(c - 1) : units[d].at # "idle"
        /\ \E op \in {"forwards", "backwards"} :
           \E res \in Inner("Leaf", <<c>>, op) :
              LET orphan == parent(current) = NoParent
                  first == wrap = "genexpr" /\ orphan
                  u == [NoUnit EXCEPT !.at = "direct", !.op = op]
              IN /\ units' = [units EXCEPT ![c] =
                    IF first THEN [u EXCEPT !.r = AssertionError]
                    ELSE IF ~is_future(res)
                    THEN [u EXCEPT !.inner = res, !.r = res]
                    ELSE IF orphan
                    THEN [u EXCEPT !.inner = res, !.r = AssertionError]
                    ELSE [u EXCEPT !.inner = res, !.susp = TRUE]]
                 /\ futures' = IF ~first /\ res.kind = "handle"
                               THEN [futures EXCEPT ![c].made = @ + 1]
                               ELSE futures
    /\ UNCHANGED <<current, loop, chains, output, trace, received, direct,
                   swallowed>>
    /\ UNCHANGED <<wrap, engine, builder>>

BridgeNext ==
    \/ TornadoExecute
    \/ LoopStart
    \/ new_fn
    \/ LoopAddDoneCallback
    \/ Resolve
    \/ LoopResume
    \/ ChainForwards
    \/ ChainBackwards
    \/ CallRollback
    \/ CallRaise
    \/ DirectCall

BridgeSpec == BridgeInit /\ [][BridgeNext]_vars

\* What goes on without a new call from the program: the IOLoop runs the
\* callbacks it has queued, a running greenlet runs on to its next switch,
\* and a pending Future is resolved.
Progress ==
    \/ LoopStart
    \/ new_fn
    \/ LoopAddDoneCallback
    \/ Resolve
    \/ LoopResume
    \/ ChainForwards
    \/ ChainBackwards
    \/ CallRollback
    \/ CallRaise

\* The bridge on an IOLoop that keeps running and with Futures that are all
\* resolved in the end.
FairBridgeSpec == BridgeSpec /\ WF_vars(Progress)

\* ------------------------------------------------------------- ActionBuilder

MaxBuilt == 2     \* at most this many actions are built by the builder
MaxBackwards == 2 \* this many functions can be registered as backwards

\* ValueError raised by the ActionBuilder method op.
ValueError(op) == [kind |-> "error", src |-> <<>>, op |-> op]

\* The ActionBuilder method op returned.
Returned(op) == [kind |-> "value", src |-> <<>>, op |-> op]

\* A test that takes every _backwards for None.
IsNoneAlways(f) == TRUE

\* self._backwards is None
IsNone(f) == f = 0

\* A builder that hands the context it made first to every action.
ContextClassShared(made) == 1

\* self._context_class(): a new object, here named by its number.
ContextClass(made) == Len(made) + 1

\* SimpleAction(forwards, backwards, context) as ActionBuilder.__call__
\* builds it, with the function that self._backwards names; and of the
\* calls made on it: where it is, what its forwards wrote to the context it
\* was given, and what its backwards found in the context it was given.
BuiltAction(ctx, f) ==
    [ctx |-> ctx, bwd |-> f, st |-> "new", wrote |-> <<>>, found |-> <<>>]

\* An ActionBuilder on which nothing was called yet.
BuilderInit ==
    /\ NoEngine
    /\ NoBridge
    /\ wrap = "plain"
    /\ registered = 0
    /\ actions = <<>>
    /\ contexts = <<>>
    /\ raised = NoRet

\* ActionBuilder.backwards(f), used as a decorator.
BuilderBackwards ==
    /\ \E f \in 1..MaxBackwards :
          IF ~IsNone(registered)
          THEN /\ raised' = ValueError("backwards")
               /\ UNCHANGED registered
          ELSE /\ registered' = f
               /\ raised' = Returned("backwards")
    /\ UNCHANGED <<actions, contexts>>
    /\ UNCHANGED <<wrap, engine, tornado>>

\* ActionBuilder.__call__(*args, **kwargs)
BuilderCall ==
    /\ Len(actions) < MaxBuilt
    /\ IF IsNone(registered)
       THEN /\ raised' = ValueError("call")
            /\ UNCHANGED <<actions, contexts>>
       ELSE LET ctx == ContextClass(contexts) IN
            /\ actions' = Append(actions, BuiltAction(ctx, registered))
            /\ contexts' = IF ctx > Len(contexts)
                           THEN Append(contexts, <<>>)
                           ELSE contexts
            /\ raised' = Returned("call")
    /\ UNCHANGED registered
    /\ UNCHANGED <<wrap, engine, tornado>>

\* SimpleAction.forwards of a built action: the function given to the
\* builder is called with the action's context; it may write to the context
\* and it returns or raises.
BuiltForwards ==
    /\ \E i \in DOMAIN actions :
       \E w \in {<<>>, <<i>>} :
       \E st \in {"returned", "failed"} :
          /\ actions[i].st = "new"
          /\ contexts' = [contexts EXCEPT ![actions[i].ctx] = @ \o w]
          /\ actions' = [actions EXCEPT ![i].st = st, ![i].wrote = w]
    /\ UNCHANGED <<registered, raised>>
    /\ UNCHANGED <<wrap, engine, tornado>>

\* SimpleAction.backwards of a built action: the registered function is
\* called with the action's context.
BuiltBackwards ==
    /\ \E i \in DOMAIN actions :
          /\ actions[i].st \in {"returned", "failed"}
          /\ actions' = [actions EXCEPT
                            ![i].st = "undone",
                            ![i].found = contexts[actions[i].ctx]]
    /\ UNCHANGED <<registered, contexts, raised>>
    /\ UNCHANGED <<wrap, engine, tornado>>

BuilderNext ==
    \/ BuilderBackwards
    \/ BuilderCall
    \/ BuiltForwards
    \/ BuiltBackwards

BuilderSpec == BuilderInit /\ [][BuilderNext]_vars

\* --------------------------------------------------------------- properties

Count(op, a) == Cardinality({i \in DOMAIN calls : calls[i] = Call(a, op)})

Pos(op, a) == CHOOSE i \in DOMAIN calls : calls[i] = Call(a, op)

Children(p) == {Append(p, i) : i \in 1..generator[p].n}

Composites == {p \in DOMAIN obj : obj[p].cls = "_GeneratorAction"}

\* No backwards() called in this run has raised.
RollbackClean == \A a \in DOMAIN obj : returned[a].backwards.kind # "error"

\* C1: when forwards() of the executed action returns normally with value v,
\* forwards() was called once, backwards() is never called, and execute
\* returns exactly v.
C1_ForwardsSuccess ==
    returned[Top].forwards.kind = "value" =>
        /\ Count("forwards", Top) = 1
        /\ Count("backwards", Top) = 0
        /\ pc \in {"forwards", "done"}
        /\ pc = "done" => result = returned[Top].forwards

C1_Witness ==
    /\ pc = "done"
    /\ obj[Top].cls = "Leaf"
    /\ result = Tok(Top, "forwards")

\* C2: when forwards() fails with E and backwards() then returns normally,
\* execute has called backwards() exactly once and raises E itself.
C2_RollbackThenOriginalError ==
    (/\ pc = "done"
     /\ returned[Top].forwards.kind = "error"
     /\ returned[Top].backwards.kind = "value") =>
        /\ Count("backwards", Top) = 1
        /\ result = returned[Top].forwards

C2_Witness ==
    /\ pc = "done"
    /\ obj[Top].cls = "Leaf"
    /\ returned[Top].backwards = None
    /\ result = Err(Top, "forwards")

\* C3: when forwards() fails with E1 and backwards() fails with E2, execute
\* raises E2.
C3_RollbackErrorSupersedes ==
    (/\ pc = "done"
     /\ returned[Top].forwards.kind = "error"
     /\ returned[Top].backwards.kind = "error") =>
        /\ result = returned[Top].backwards
        /\ result # returned[Top].forwards

C3_Witness ==
    /\ pc = "done"
    /\ obj[Top].cls = "Leaf"
    /\ returned[Top].forwards = Err(Top, "forwards")
    /\ result = Err(Top, "backwards")

\* The first sub-action of p whose forwards() raised: its index, 0 if none.
FirstFailed(p) ==
    LET F == {i \in 1..generator[p].n :
                 returned[Append(p, i)].forwards.kind = "error"}
    IN IF F = {} THEN 0 ELSE CHOOSE i \in F : \A j \in F : i <= j

\* The sub-actions of p have had backwards() called once each, the later
\* yielded the earlier called.
RolledBackInReverse(p) ==
    /\ \A c \in Children(p) : Count("backwards", c) = 1
    /\ \A i, j \in 1..generator[p].n :
          i < j => Pos("backwards", Append(p, j)) < Pos("backwards", Append(p, i))

\* execute(Top) is over; Top is a composite whose k-th sub-action was the
\* first to fail and whose procedure let that failure through.
FailedUnhandled(k) ==
    /\ pc = "done"
    /\ Top \in Composites
    /\ k >= 1
    /\ k = FirstFailed(Top)
    /\ Append(Top, k) \notin handled

\* The sub-actions 1..k were each run once and rolled back once in the order
\* k, ..., 1, nothing was taken from the generator after k, and execute
\* raises the error of k.
RolledBackFrom(k) ==
    /\ result = returned[Append(Top, k)].forwards
    /\ generator[Top].n = k
    /\ \A c \in Children(Top) : Count("forwards", c) = 1
    /\ RolledBackInReverse(Top)

ScenarioABC ==
    /\ FailedUnhandled(3)
    /\ \A c \in Children(Top) : obj[c].cls = "Leaf"
    /\ RollbackClean

\* C5, as stated: execute raises the error of C, B.backwards and A.backwards
\* are called once each, B before A, and C.backwards is never called.
C5_AsStated ==
    ScenarioABC =>
        /\ result = Err(<<3>>, "forwards")
        /\ Count("backwards", <<2>>) = 1
        /\ Count("backwards", <<1>>) = 1
        /\ Pos("backwards", <<2>>) < Pos("backwards", <<1>>)
        /\ Count("backwards", <<3>>) = 0

\* C5, amended: execute raises the error of C, and C.backwards, B.backwards
\* and A.backwards are called once each, in this order.
C5_FailedStepIsRolledBackFirst ==
    ScenarioABC =>
        /\ result = Err(<<3>>, "forwards")
        /\ Count("backwards", <<3>>) = 1
        /\ Count("backwards", <<2>>) = 1
        /\ Count("backwards", <<1>>) = 1
        /\ Pos("backwards", <<3>>) < Pos("backwards", <<2>>)
        /\ Pos("backwards", <<2>>) < Pos("backwards", <<1>>)

C5_Witness ==
    /\ ScenarioABC
    /\ returned[<<3>>].backwards = None
    /\ returned[<<1>>].backwards = None
    /\ result = Err(<<3>>, "forwards")

Items(q) == {q[i] : i \in DOMAIN q}

C7_ReturnSignal ==
    \A p \in Composites :
        generator[p].ended = "Return" =>
            /\ returned[p].forwards = generator[p].carried
            /\ p = Top =>
                /\ pc \in {"forwards", "done"}
                /\ pc = "done" => result = generator[p].carried
                /\ \A i \in DOMAIN calls : calls[i].op = "forwards"

C7_Witness ==
    /\ pc = "done"
    /\ generator[Top].ended = "Return"
    /\ generator[Top].n = 2
    /\ returned[<<1>>].forwards = Tok(<<1>>, "forwards")
    /\ returned[<<2>>].forwards = Tok(<<2>>, "forwards")
    /\ result = Tok(Top, "procedure")

\* C8, as stated: every sub-action taken from the procedure has forwards()
\* called once, and when the i-th returned r, what the procedure received at
\* its i-th yield is r.
C8_ResumedWithResult ==
    \A p \in Composites : \A i \in 1..generator[p].n :
        /\ Count("forwards", Append(p, i)) = 1
        /\ (/\ returned[Append(p, i)].forwards.kind = "value"
            /\ Len(recv[p]) >= i) =>
                recv[p][i] = returned[Append(p, i)].forwards

\* The same holds of the chains built by reversible/generator.py and by
\* reversible/tornado/generator.py.
C8_ResumedWithResultRelayed == wrap # "genexpr" => C8_ResumedWithResult

\* An action that yields nothing: built from a plain value or from Return, or
\* a generator that ended before its first yield.
Yieldless(a) ==
    \/ obj[a].cls = "SimpleAction"
    \/ /\ obj[a].cls = "_GeneratorAction"
       /\ generator[a].n = 0
       /\ generator[a].ended \in {"StopIteration", "Return"}

\* C9: an action built from a function that yields nothing gives the value
\* its function returned or raised through Return (None for a generator that
\* ends without a value), calls no sub-action, and its backwards() returns
\* without raising; executed alone, execute returns that value after the one
\* call of forwards(); yielded by a composite that then fails, it does not
\* disturb the rollback of the composite's sub-actions.
C9_YieldlessComposite ==
    /\ \A a \in DOMAIN obj : Yieldless(a) =>
        /\ obj[a].cls = "SimpleAction" =>
              returned[a].forwards \in {NoRet, obj[a].said}
        /\ (obj[a].cls # "SimpleAction" /\ generator[a].ended = "Return") =>
              returned[a].forwards = generator[a].carried
        /\ (obj[a].cls # "SimpleAction" /\ generator[a].carried = None) =>
              returned[a].forwards = None
        /\ returned[a].backwards \in {NoRet, None}
        /\ executed[a] = <<>>
        /\ (a = Top /\ pc = "done") =>
              /\ result = returned[Top].forwards
              /\ calls = <<Call(Top, "forwards")>>
    /\ (/\ pc = "done"
        /\ Top \in Composites
        /\ \E c \in Children(Top) : Yieldless(c)
        /\ returned[Top].forwards.kind = "error"
        /\ RollbackClean) => RolledBackInReverse(Top)

C9_Witness ==
    /\ pc = "done"
    /\ Top \in Composites
    /\ generator[Top].n = 3
    /\ obj[<<2>>].cls = "SimpleAction"
    /\ obj[<<2>>].via = "value"
    /\ returned[<<2>>].forwards = Tok(<<2>>, "function")
    /\ result = Err(<<3>>, "forwards")
    /\ calls[Len(calls)] = Call(<<1>>, "backwards")

C9_WitnessAlone ==
    /\ pc = "done"
    /\ Yieldless(Top)
    /\ result = Tok(Top, "function")

\* C10: when the backwards() of a sub-action c popped by the composite p
\* raises, no sub-action of p older than c has backwards() called and each
\* stays on the stack of p, backwards() of p raises that error, and execute
\* raises it instead of the error of forwards().
C10_SweepFailFast ==
    \A p \in Composites : \A i \in 1..generator[p].n :
        returned[Append(p, i)].backwards.kind = "error" =>
            /\ \A j \in 1..(i - 1) :
                  /\ Count("backwards", Append(p, j)) = 0
                  /\ Append(p, j) \in Items(executed[p])
            /\ returned[p].backwards \in {NoRet, returned[Append(p, i)].backwards}
            /\ pc = "done" =>
                  /\ result = returned[Append(p, i)].backwards
                  /\ result # exc

C10_Witness ==
    /\ pc = "done"
    /\ Top \in Composites
    /\ generator[Top].n = 3
    /\ returned[<<1>>].forwards = Tok(<<1>>, "forwards")
    /\ returned[<<2>>].backwards = Err(<<2>>, "backwards")
    /\ returned[<<3>>].backwards = None
    /\ result = Err(<<2>>, "backwards")
    /\ executed[Top] = <<<<1>>>>

\* C23: once execute calls action.backwards() a record of the error of
\* forwards() has been written, and nothing else; when backwards() raises
\* too, execute raises the error of backwards() and the log holds the record
\* of the error of forwards() followed by the record of the failed rollback;
\* execute never raises without a record of the error of forwards().
C23_BothFailuresLogged ==
    /\ pc = "backwards" =>
          /\ exc = returned[Top].forwards
          /\ log = <<[msg |-> "failed to execute", exc |-> exc]>>
    /\ (pc = "done" /\ result.kind = "error") =>
          /\ log # <<>>
          /\ log[1] = [msg |-> "failed to execute",
                       exc |-> returned[Top].forwards]
          /\ IF returned[Top].backwards.kind = "error"
             THEN /\ result = returned[Top].backwards
                  /\ log = <<log[1], [msg |-> "failed to roll back",
                                      exc |-> returned[Top].backwards]>>
             ELSE /\ result = returned[Top].forwards
                  /\ log = <<log[1]>>
    /\ (pc = "done" /\ result.kind = "value") => log = <<>>

\* forwards() of a class instance raised, backwards() raised too, and
\* execute raised the error of backwards().
C23_Witness ==
    /\ pc = "done"
    /\ obj[Top].cls = "Leaf"
    /\ result = Err(Top, "backwards")
    /\ log = <<[msg |-> "failed to execute", exc |-> Err(Top, "forwards")],
               [msg |-> "failed to roll back", exc |-> Err(Top, "backwards")]>>

\* C24, as stated: a sub-action is in the deque of its composite exactly
\* when its forwards() has returned a value and its backwards() has not been
\* called.
C24_AsStated ==
    \A p \in Composites : \A c \in Children(p) :
        (c \in Items(executed[p])) <=>
            /\ returned[c].forwards.kind = "value"
            /\ Count("backwards", c) = 0

\* C24, amended: a sub-action is in the deque of its composite exactly when
\* its forwards() has been called, whether it is still running, has
\* returned or has raised, and its backwards() has not been called; the
\* deque holds each such sub-action once, in the order they were yielded.
C24_OnStackOnceCalled ==
    \A p \in Composites :
        /\ \A c \in Children(p) :
              (c \in Items(executed[p])) <=>
                  /\ Count("forwards", c) = 1
                  /\ Count("backwards", c) = 0
        /\ Items(executed[p]) \subseteq Children(p)
        /\ \A i, j \in DOMAIN executed[p] :
              i < j => executed[p][i][Len(p) + 1] < executed[p][j][Len(p) + 1]

\* The forwards() of the first sub-action raised, the procedure went on, and
\* the forwards() of the second one is running: both are in the deque.
C24_Witness ==
    /\ obj[Top].cls = "_GeneratorAction"
    /\ pc = "forwards"
    /\ executed[Top] = <<(<<1>>), (<<2>>)>>
    /\ returned[<<1>>].forwards = Err(<<1>>, "forwards")
    /\ Len(stack) = 2
    /\ TopFrame.act = <<2>>
    /\ returned[<<2>>].forwards = NoRet

\* The sub-actions that p took from its procedure after c.
Later(p, c) == {d \in Children(p) : d[Len(d)] > c[Len(c)]}

C27_WitnessCompleted ==
    /\ pc = "done"
    /\ handled = {<<1>>}
    /\ result.kind = "value"
    /\ \A i \in DOMAIN calls : calls[i].op = "forwards"

\* C28: however often the backwards() of a composite is called, also after a
\* sweep that the failure of a backwards() ended, the backwards() of each of
\* its sub-actions is called at most once: a sub-action is in the deque
\* exactly as long as its backwards() has not been called; and once a call
\* of the composite's backwards() has returned without an error the deque is
\* empty, every sub-action has had its one call, and a further call calls
\* nothing.
C28_AtMostOneBackwards ==
    \A p \in Composites :
        /\ \A c \in Children(p) :
              /\ Count("backwards", c) <= 1
              /\ (c \in Items(executed[p])) <=> Count("backwards", c) = 0
        /\ returned[p].backwards = None =>
              /\ executed[p] = <<>>
              /\ \A c \in Children(p) : Count("backwards", c) = 1
              /\ (stack # <<>> /\ stack[Len(stack)].act \in Children(p)) =>
                    Count("backwards", p) = 1

\* execute's rollback ended with the error of the second sub-action's
\* backwards(), and a second call of the composite's backwards() rolled the
\* first sub-action back and returned.
C28_Witness ==
    /\ pc = "done"
    /\ Top \in Composites
    /\ generator[Top].n = 2
    /\ result = Err(<<2>>, "backwards")
    /\ Count("backwards", Top) = 2
    /\ returned[Top].backwards = None
    /\ calls[Len(calls)] = Call(<<1>>, "backwards")
    /\ calls[Len(calls) - 1] = Call(Top, "backwards")
    /\ Count("backwards", <<2>>) = 1

\* execute rolled the composite back without an error, and a second call of
\* its backwards() called nothing.
C28_WitnessEmpty ==
    /\ pc = "done"
    /\ Top \in Composites
    /\ generator[Top].n = 2
    /\ result = Err(<<2>>, "forwards")
    /\ calls[Len(calls)] = Call(Top, "backwards")
    /\ Count("backwards", Top) = 2
    /\ Count("backwards", <<1>>) = 1

\* The None steps that the procedure of p yielded.
NoneSteps(p) == {c \in Children(p) : obj[c] = NoneStep}

C21_OwnContext ==
    \A i \in DOMAIN actions :
        /\ actions[i].ctx \in DOMAIN contexts
        /\ \A j \in DOMAIN actions : i # j => actions[i].ctx # actions[j].ctx
        /\ contexts[actions[i].ctx] = actions[i].wrote
        /\ actions[i].st = "new" => contexts[actions[i].ctx] = <<>>
        /\ actions[i].st = "undone" => actions[i].found = actions[i].wrote

\* Two actions of one builder: the forwards of both wrote to their contexts,
\* the first one returned and the second one raised, and the backwards of
\* each found what its own forwards wrote.
C21_Witness ==
    /\ Len(actions) = 2
    /\ actions[1] = [ctx |-> 1, bwd |-> registered, st |-> "undone",
                     wrote |-> <<1>>, found |-> <<1>>]
    /\ actions[2] = [ctx |-> 2, bwd |-> registered, st |-> "undone",
                     wrote |-> <<2>>, found |-> <<2>>]
    /\ contexts = <<(<<1>>), (<<2>>)>>

\* C22: no action exists unless a backwards is registered, and every action
\* has the registered backwards; a call of the builder that raised
\* ValueError found no backwards registered and built nothing; a
\* registration that raised ValueError found one registered; a registered
\* backwards is never replaced; a step taken while none is registered
\* leaves the builder without actions; and a step in which the builder
\* raises changes neither the registration nor any action nor any context.
C22_MisuseRejected ==
    /\ [](/\ actions # <<>> => ~IsNone(registered)
          /\ \A i \in DOMAIN actions : actions[i].bwd = registered
          /\ raised = ValueError("call") =>
                (registered = 0 /\ actions = <<>>)
          /\ raised = ValueError("backwards") => registered # 0)
    /\ [][/\ registered # 0 => registered' = registered
          /\ registered = 0 => actions' = <<>>
          /\ (raised' # raised /\ raised'.kind = "error") =>
                UNCHANGED <<registered, actions, contexts>>]_vars

\* A second registration raised ValueError after an action was built and
\* run; the first registration stands.
C22_Witness ==
    /\ raised = ValueError("backwards")
    /\ registered = 1
    /\ Len(actions) = 1
    /\ actions[1].bwd = 1
    /\ actions[1].st = "returned"

\* The builder was called before a backwards was registered and raised.
C22_WitnessCall ==
    /\ raised = ValueError("call")
    /\ registered = 0
    /\ actions = <<>>

\* The actions that are no composites.
Leaves == {a \in DOMAIN obj : obj[a].cls # "_GeneratorAction"}

\* No leaf has backwards() called twice, backwards() is called only on a
\* leaf whose forwards() was called before, and of two leaves that have both
\* been rolled back, the one whose forwards() was called later had its
\* backwards() called earlier.
ReverseOfForwards ==
    /\ \A a \in Leaves :
          /\ Count("backwards", a) <= 1
          /\ Count("backwards", a) = 1 =>
                /\ Count("forwards", a) = 1
                /\ Pos("forwards", a) < Pos("backwards", a)
    /\ \A a, b \in Leaves :
          (/\ Count("backwards", a) = 1
           /\ Count("backwards", b) = 1
           /\ Pos("forwards", a) < Pos("forwards", b)) =>
              Pos("backwards", b) < Pos("backwards", a)

\* execute(Top) is over; the i-th sub-action of Top is a composite, and the
\* forwards() of the j-th, yielded later, raised an error that the procedure
\* of Top let through.
NestedFailedLater(i, j) ==
    /\ pc = "done"
    /\ Top \in Composites
    /\ <<i>> \in Composites
    /\ i < j
    /\ returned[<<j>>].forwards.kind = "error"
    /\ <<j>> \notin handled
    /\ returned[Top].forwards = returned[<<j>>].forwards

\* backwards() of the inner composite was called once, after it the
\* backwards() of each of its sub-actions, the later yielded the earlier,
\* its stack is empty, and every action of the run was rolled back once.
NestedCompensated(i) ==
    /\ Count("backwards", <<i>>) = 1
    /\ executed[<<i>>] = <<>>
    /\ RolledBackInReverse(<<i>>)
    /\ \A c \in Children(<<i>>) :
          Pos("backwards", <<i>>) < Pos("backwards", c)
    /\ \A a \in DOMAIN obj : Count("backwards", a) = 1

SubEvents(c) == SelectSeq(trace[c], LAMBDA e : e.tgt > 0)

\* The calls of op made to the sub-actions of chain c, in order.
CallsOf(c, op) ==
    SelectSeq(trace[c], LAMBDA e : e.tgt > 0 /\ e.op = op /\ e.ev = "call")

\* C11: in each chain the bridged calls of sub-actions do not overlap: a call
\* starts only after the call before it has returned, and no call starts or
\* returns while the Future of the chain is pending; forwards() is called on
\* the sub-actions in the order they are yielded, and backwards() in exactly
\* the reverse order, after the last forwards().
C11_Sequential ==
    \A c \in Chains :
        LET S == SubEvents(c)
            F == CallsOf(c, "forwards")
            B == CallsOf(c, "backwards")
        IN /\ \A k \in 1..Len(S) :
                IF S[k].ev = "call" THEN k = 1 \/ S[k - 1].ev = "back"
                ELSE k > 1 /\ S[k - 1] = [S[k] EXCEPT !.ev = "call"]
           /\ units[c].at \in {"call", "back"} => futures[c].st # "pending"
           /\ \A k \in 1..Len(F) : F[k].tgt = k
           /\ \A k \in 1..Len(B) : B[k].tgt = Len(F) + 1 - k
           /\ \A j, k \in 1..Len(S) :
                (S[j].op = "backwards" /\ S[k].op = "forwards") => k < j

C11_Witness ==
    /\ units[1].at = "done"
    /\ chains[1].n = 2
    /\ futures[1].made = 2
    /\ chains[1].forwards = Err(<<1, 2>>, "forwards")
    /\ output[1].out = Err(<<1, 2>>, "forwards")
    /\ Len(CallsOf(1, "backwards")) = 2

\* Nothing is left to run: the IOLoop's queue is empty and no Future is
\* pending.
Quiet ==
    /\ current = 0
    /\ loop = <<>>
    /\ \A c \in Chains : futures[c].st # "pending"

\* What core.execute raises or returns for an action whose forwards() gave
\* fwd and whose backwards(), if it was called, gave bwd.
Outcome(fwd, bwd) ==
    IF fwd.kind = "value" THEN fwd
    ELSE IF bwd.kind = "error" THEN bwd
    ELSE fwd

\* C12, as stated: the output of each execute call is resolved at most once;
\* it is resolved when the call is over and only then, with the value of
\* forwards(), or with the error of forwards() when backwards() succeeded,
\* or with the error of backwards(); and every call is over once nothing is
\* left to run, whether forwards() and backwards() returned at once or
\* returned Futures.
C12_SameOutcome ==
    \A c \in Chains :
        /\ output[c].n <= 1
        /\ (units[c].at = "done") = (output[c].n = 1)
        /\ units[c].at = "done" =>
              output[c].out = Outcome(chains[c].forwards, chains[c].backwards)
        /\ Quiet => units[c].at \in {"idle", "direct", "done"}

\* The same holds of reversible/tornado/core.py.
C12_SameOutcomePackage == wrap = "map" => C12_SameOutcome

\* C13, as stated: a bridged call whose inner call returned a Future returns
\* to its caller what the Future was resolved with, a value or an error and
\* never the Future; and once the Future is resolved and the IOLoop has run
\* what the resolution queued, the call has returned.
C13_ResolvedAtCallSite ==
    \A c \in Chains :
        /\ units[c].r.kind # "handle"
        /\ received[c].kind # "handle"
        /\ (units[c].at = "back" /\ units[c].inner.kind = "handle") =>
              /\ futures[c].st = "done"
              /\ units[c].r = futures[c].out
        /\ units[c].at = "wait" =>
              \/ futures[c].st = "pending"
              \/ \E i \in DOMAIN loop : loop[i].unit = c

\* The same holds of reversible/tornado/core.py.
C13_ResolvedAtCallSitePackage == wrap = "map" => C13_ResolvedAtCallSite

\* C14: a greenlet that waits in a bridged call does not hold the thread:
\* only a greenlet that is in a call or back from one is ever the running
\* one, so the IOLoop's greenlet or a greenlet the IOLoop switched to runs
\* while others wait for their Futures; and a greenlet that is in a call or
\* back from one is the running one.
C14_LoopNotBlocked ==
    /\ current \in Chains => units[current].at \in {"call", "back"}
    /\ \A c \in Chains :
          /\ units[c].at = "wait" => (current # c /\ units[c].susp)
          /\ units[c].at \in {"call", "back"} => current = c

\* The second call of execute ran from its start to its end while the first
\* one waited for a Future that is still pending.
C14_Witness ==
    /\ units[1].at = "wait"
    /\ futures[1].st = "pending"
    /\ units[2].at = "done"
    /\ output[2].n = 1
    /\ current = 0

\* No entry of the IOLoop's queue belongs to the bridged call of chain c.
NothingQueued(c) ==
    \A i \in DOMAIN loop :
        loop[i].unit = c => loop[i].fn = "start"

\* C15: a bridged call whose inner call returned a value that is no Future,
\* or raised, did not switch to the parent, queued nothing on the IOLoop,
\* and returned that value or raised that error.
C15_PassThrough ==
    \A c \in Chains :
        units[c].inner.kind \in {"value", "error"} =>
            /\ ~units[c].susp
            /\ units[c].sched = 0
            /\ NothingQueued(c)
            /\ futures[c].st = "none"
            /\ units[c].at \in {"back", "direct"}
            /\ units[c].r = units[c].inner

\* The forwards() of a sub-action raised at once, in a chain of
\* reversible/tornado.py.
C15_Witness ==
    /\ wrap = "genexpr"
    /\ units[1].at = "back"
    /\ units[1].tgt = 1
    /\ units[1].op = "forwards"
    /\ units[1].inner = Err(<<1, 1>>, "forwards")
    /\ units[1].r = Err(<<1, 1>>, "forwards")
    /\ current = 1

InLift(c, op) ==
    /\ units[c].tgt > 0
    /\ units[c].op = op
    /\ units[c].at \in {"call", "wait", "back"}
    /\ Target(c) = "_Lift"

\* The sub-action whose forwards() gave v is a lift(future) of chain c.
FromLift(c, v) ==
    /\ v.kind \in {"value", "error"}
    /\ Len(v.src) = 2
    /\ v.op = "forwards"
    /\ chains[c].subs[v.src[2]] = "_Lift"

\* C17: the bridged forwards() of a yielded lift(f) switches away and comes
\* back only when f is resolved, with what f was resolved with, whether f
\* was resolved before or after the yield; the procedure is then resumed
\* with f's value or has f's error thrown in; the backwards() of a lift
\* returns None at once without a Future; and a chain that a lift's error
\* ended has backwards() called on every sub-action called before, in
\* reverse order, when no backwards() raises.
C17_Lift ==
    \A c \in Chains :
        /\ InLift(c, "forwards") =>
              /\ units[c].at = "wait" =>
                    (units[c].susp /\ units[c].inner.kind = "handle")
              /\ units[c].at = "back" =>
                    /\ units[c].inner.kind = "handle"
                    /\ units[c].susp
                    /\ units[c].sched = 1
                    /\ futures[c].st = "done"
                    /\ units[c].r = futures[c].out
        /\ FromLift(c, chains[c].gave) => received[c] = chains[c].gave
        /\ (InLift(c, "backwards") /\ units[c].at = "back") =>
              /\ units[c].r = None
              /\ units[c].inner = None
              /\ ~units[c].susp
              /\ futures[c].st = "none"
        /\ ( /\ units[c].at = "done"
             /\ FromLift(c, chains[c].forwards)
             /\ chains[c].forwards.kind = "error"
             /\ chains[c].backwards = None ) =>
              /\ output[c].out = chains[c].forwards
              /\ Len(CallsOf(c, "backwards")) = Len(CallsOf(c, "forwards"))
              /\ \A k \in 1..Len(CallsOf(c, "backwards")) :
                    CallsOf(c, "backwards")[k].tgt = chains[c].n + 1 - k

\* A chain yielded a class instance and then a lift whose Future failed; the
\* procedure let the error through and both were rolled back.
C17_Witness ==
    /\ units[1].at = "done"
    /\ chains[1].subs = <<"Leaf", "_Lift">>
    /\ chains[1].forwards = Err(<<1, 2>>, "forwards")
    /\ chains[1].backwards = None
    /\ output[1].out = Err(<<1, 2>>, "forwards")
    /\ Len(CallsOf(1, "backwards")) = 2

\* C18, as stated: in a chain built by the bridge's gen the forwards() and
\* backwards() of every yielded sub-action are called through the bridge, so
\* one that returns a Future makes the chain wait and gives what the Future
\* was resolved with; and what the forwards() of a sub-action came to, value
\* or error, is what the procedure gets at its yield.
C18_TwoWayFlow ==
    \A c \in Chains :
        chains[c].cls \in GeneratorClasses =>
            /\ (units[c].tgt > 0 /\ units[c].at = "back") =>
                  /\ units[c].r.kind \in {"value", "error"}
                  /\ units[c].inner.kind = "handle" => units[c].susp
            /\ chains[c].gave.kind \in {"value", "error"} =>
                  received[c] = chains[c].gave

\* The same holds of reversible/tornado/generator.py.
C18_TwoWayFlowPackage == wrap = "map" => C18_TwoWayFlow

\* The call of execute numbered c has been started by the IOLoop and is not
\* over.
Started(c) == units[c].at \in {"call", "wait", "back"}

\* The output of call c is resolved, once, with the outcome of its action.
Resolved(c) ==
    /\ output[c].n = 1
    /\ output[c].out = Outcome(chains[c].forwards, chains[c].backwards)

\* C19: with reversible/tornado/core.py, on an IOLoop that keeps running its
\* callbacks and with Futures that are all resolved in the end, every call
\* of execute that has started forwards() leads to its output being
\* resolved with the value of forwards(), the error of forwards() after the
\* rollback, or the error of the rollback, whatever other calls do
\* meanwhile; and an output once resolved stays as it is.
C19_RunsToCompletion ==
    /\ \A c \in Chains : (wrap = "map" /\ Started(c)) ~> Resolved(c)
    /\ [][\A c \in Chains :
            output[c].n = 1 => (output'[c] = output[c] /\ ~Started(c)')]_vars

\* A chain that waited twice is over and its output holds the error of its
\* rollback, while the other call of execute still waits for its Future.
C19_Witness ==
    /\ wrap = "map"
    /\ units[1].at = "done"
    /\ output[1].n = 1
    /\ output[1].out.kind = "error"
    /\ output[1].out.op = "backwards"
    /\ units[2].at = "wait"
    /\ futures[2].st = "pending"
    /\ futures[1].made = 1

\* The value v comes from a forwards(), a backwards() or the procedure of
\* chain c, or from no chain: it is None, or an error the library raised.
Own(c, v) == v.src = <<>> \/ v.src[1] \in {0, c}

\* C20: whatever the order in which the IOLoop runs the calls of execute,
\* everything a chain holds comes from its own action: the result of its
\* bridged call, the error it rolls back for, what its procedure was sent,
\* what its Future holds and its output; its deque holds sub-actions of its
\* own, each once, in the order they were yielded; backwards() is called on
\* its own sub-actions only, latest first; and a queued resumption belongs to
\* the greenlet that waits for the resolved Future and carries what that
\* Future holds.
C20_Isolation ==
    /\ \A c \in Chains :
          /\ Own(c, units[c].r)
          /\ Own(c, units[c].exc)
          /\ Own(c, units[c].inner)
          /\ Own(c, received[c])
          /\ Own(c, futures[c].h)
          /\ Own(c, futures[c].out)
          /\ Own(c, output[c].out)
          /\ Own(c, chains[c].forwards)
          /\ Own(c, chains[c].backwards)
          /\ \A k \in 1..Len(chains[c].executed) :
                /\ chains[c].executed[k] \in 1..chains[c].n
                /\ k > 1 => chains[c].executed[k - 1] < chains[c].executed[k]
          /\ \A k \in 1..Len(trace[c]) : trace[c][k].tgt \in 0..chains[c].n
          /\ \A j, k \in 1..Len(CallsOf(c, "backwards")) :
                j < k => CallsOf(c, "backwards")[j].tgt
                            > CallsOf(c, "backwards")[k].tgt
    /\ \A i \in DOMAIN loop :
          loop[i].fn \in {"switch", "throw"} =>
              /\ units[loop[i].unit].at = "wait"
              /\ futures[loop[i].unit].st = "done"
              /\ loop[i].arg = futures[loop[i].unit].out
              /\ \A j \in DOMAIN loop :
                    (loop[j].unit = loop[i].unit /\ j # i) =>
                        loop[j].fn = "add_done_callback"

\* Both chains wait, in their rollback, for the Future that the backwards()
\* of their first sub-action returned.
C20_Witness ==
    /\ \A c \in Chains :
          /\ units[c].at = "wait"
          /\ units[c].op = "backwards"
          /\ units[c].tgt = 1
          /\ futures[c].st = "pending"
          /\ units[c].exc = Err(<<c, 1>>, "forwards")
    /\ current = 0

\* The greenlet of call c is running or about to run on: it is in a call or
\* back from one.
Live(c) == units[c].at \in {"call", "back"}

\* The entries of the IOLoop's queue that resume the greenlet of call c.
Resumptions(c) ==
    {i \in DOMAIN loop : loop[i].unit = c /\ loop[i].fn \in {"switch", "throw"}}

\* C26: at most one greenlet of a call is live, and none while the IOLoop's
\* greenlet runs; a greenlet that waits, waits for the one Future that the
\* inner call of its bridged call returned; a greenlet that does not wait
\* has no pending Future, so no greenlet has two; and a greenlet was given
\* no more Futures than it made bridged calls.
C26_OneHandleOneRunning ==
    /\ Cardinality({c \in Chains : Live(c)}) <= 1
    /\ current = 0 => \A c \in Chains : ~Live(c)
    /\ \A c \in Chains :
          /\ units[c].at = "wait" =>
                /\ units[c].inner = Handle(Path(c, units[c].tgt), units[c].op)
                /\ futures[c].h = units[c].inner
                /\ futures[c].st \in {"pending", "done"}
          /\ units[c].at # "wait" => futures[c].st # "pending"
          /\ units[c].at # "direct" =>
                futures[c].made
                   <= Len(SelectSeq(trace[c], LAMBDA e : e.ev = "call"))

\* The first call waits for a pending Future while the greenlet of the
\* second call runs the forwards() of a sub-action.
C26_Witness ==
    /\ units[1].at = "wait"
    /\ futures[1].st = "pending"
    /\ current = 2
    /\ units[2].at = "call"
    /\ units[2].tgt = 1
    /\ units[2].op = "forwards"

\* C29: whenever a resumption of a greenlet, or the registration of its
\* callback, is in the IOLoop's queue, the greenlet has switched to its
\* parent and is not the running one, whether its Future was complete when
\* it was returned or not; and a bridged call that got a Future has returned
\* only after it switched away and a queued resumption was run.
C29_ResumedAfterSwitch ==
    /\ \A i \in DOMAIN loop :
          loop[i].fn \in {"switch", "throw", "add_done_callback"} =>
              /\ units[loop[i].unit].at = "wait"
              /\ units[loop[i].unit].susp
              /\ current # loop[i].unit
    /\ \A c \in Chains :
          /\ (units[c].at = "wait" /\ futures[c].st = "done") =>
                (current # c /\ units[c].susp)
          /\ (units[c].at = "back" /\ units[c].inner.kind = "handle") =>
                /\ units[c].susp
                /\ units[c].sched = 1
                /\ Resumptions(c) = {}
                /\ current = c

\* The Future that forwards() returned was complete already; the greenlet
\* has switched to its parent and its resumption is the next callback of the
\* IOLoop.
C29_Witness ==
    /\ wrap = "genexpr"
    /\ current = 0
    /\ units[1].at = "wait"
    /\ units[1].susp
    /\ futures[1].st = "done"
    /\ futures[1].out = Tok(<<1>>, "forwards")
    /\ loop = <<Queued("switch", 1, Tok(<<1>>, "forwards"))>>
    /\ units[2].at = "idle"

\* C30: for the Future a bridged call waits for, at most one resumption is
\* ever queued, and exactly one once the Future is resolved and its callback
\* has run: current.throw when the Future holds an error, current.switch
\* when it holds a value, with what the Future holds; the callback is then
\* no longer registered; the greenlet it resumes is the one that waits, not
\* one that is over; and a call that has returned was resumed once.
C30_OneResumption ==
    \A c \in Chains :
        /\ units[c].sched <= 1
        /\ Cardinality(Resumptions(c)) <= 1
        /\ Resumptions(c) # {} => units[c].sched = 1
        /\ units[c].sched = 1 =>
              /\ futures[c].st = "done"
              /\ ~futures[c].cb
              /\ \A i \in DOMAIN loop :
                    loop[i].unit = c => i \in Resumptions(c)
        /\ \A i \in Resumptions(c) :
              /\ units[c].at = "wait"
              /\ loop[i].arg = futures[c].out
              /\ loop[i].fn = IF futures[c].out.kind = "error" THEN "throw"
                              ELSE "switch"
        /\ (units[c].at = "wait" /\ futures[c].st = "pending") =>
              units[c].sched = 0
        /\ (units[c].at = "back" /\ units[c].inner.kind = "handle") =>
              units[c].sched = 1
        /\ units[c].at \in {"idle", "queued", "done", "direct"} =>
              units[c].sched = 0

\* The Future that the backwards() of a sub-action returned was resolved
\* with an error, and current.throw with that error is queued for the
\* greenlet, which waits.
C30_Witness ==
    /\ wrap = "map"
    /\ units[1].at = "wait"
    /\ units[1].op = "backwards"
    /\ units[1].tgt = 1
    /\ futures[1].out = Err(<<1, 1>>, "backwards")
    /\ loop = <<Queued("throw", 1, Err(<<1, 1>>, "backwards"))>>
    /\ units[1].sched = 1

====
